---- MODULE Spec2Model ----
(***************************************************************************)
(* Wizard duel (src/src/main.rs): two wizards choose one action each per   *)
(* turn; Game::tick filters illegal moves, deducts mana, evaluates both    *)
(* actions and applies the passive mana gain; main loops until             *)
(* game_completed reports a terminal state.                                *)
(***************************************************************************)
EXTENDS Integers, FiniteSets, Sequences, TLC

\* ------------------------------------------------------------------------
\* Action catalog (enum Action, damage_amnt, mana_cost)
\* ------------------------------------------------------------------------
Action == {"Strike", "Fireball", "LightningBolt", "ManaShield", "Reflect", "Concentrate"}

Side == {"Left", "Right", "Neither"}

\* damage_amnt with Strike's and Fireball's values exchanged
damage_amnt_swapped(a) ==
    CASE a = "Strike" -> 3
      [] a = "Fireball" -> 2
      [] a = "LightningBolt" -> 5
      [] OTHER -> 0

damage_amnt(a) ==
    CASE a = "Strike" -> 2
      [] a = "Fireball" -> 3
      [] a = "LightningBolt" -> 5
      [] a = "ManaShield" -> 0
      [] a = "Reflect" -> 0
      [] a = "Concentrate" -> 0

\* an i8: Concentrate has a negative "cost"
mana_cost(a) ==
    CASE a = "Strike" -> 0
      [] a = "Fireball" -> 1
      [] a = "LightningBolt" -> 2
      [] a = "ManaShield" -> 1
      [] a = "Reflect" -> 2
      [] a = "Concentrate" -> -4

\* ------------------------------------------------------------------------
\* u8 arithmetic as Rust computes it
\* ------------------------------------------------------------------------
U8Max == 255

\* `x as u8` for an i8 x: two's complement reinterpretation
as_u8(x) == x % (U8Max + 1)

\* `(1. / mana as f64) as u8`: the reciprocal of the i8, then the saturating
\* float-to-int cast (negative -> 0, fraction truncated, +inf -> 255)
recip_as_u8(mana) ==
    IF mana = 0 THEN U8Max
    ELSE IF mana = 1 THEN 1
    ELSE 0

saturating_sub(a, b) == IF a - b < 0 THEN 0 ELSE a - b

saturating_add(a, b) == IF a + b > U8Max THEN U8Max ELSE a + b

\* ------------------------------------------------------------------------
\* Wizard and Game
\* ------------------------------------------------------------------------
InitHealth == 15

InitMana == 1

Wizard_new == [health |-> InitHealth, mana |-> InitMana]

Game_new == [left_wizard |-> Wizard_new, right_wizard |-> Wizard_new, turn_count |-> 0]

\* damage_wizard with a plain subtraction in place of saturating_sub
damage_wizard_unsaturated(g, side, damage) ==
    IF side = "Left"
    THEN [g EXCEPT !.left_wizard.health = @ - damage]
    ELSE IF side = "Right"
    THEN [g EXCEPT !.right_wizard.health = @ - damage]
    ELSE g

\* damage_wizard with wrapping_sub in place of saturating_sub
damage_wizard_wrapping(g, side, damage) ==
    IF side = "Left"
    THEN [g EXCEPT !.left_wizard.health = (@ - damage) % (U8Max + 1)]
    ELSE IF side = "Right"
    THEN [g EXCEPT !.right_wizard.health = (@ - damage) % (U8Max + 1)]
    ELSE g

\* damage_wizard with the value of saturating_sub computed and dropped
damage_wizard_discard(g, side, damage) == g

damage_wizard(g, side, damage) ==
    IF side = "Left"
    THEN [g EXCEPT !.left_wizard.health = saturating_sub(@, damage)]
    ELSE IF side = "Right"
    THEN [g EXCEPT !.right_wizard.health = saturating_sub(@, damage)]
    ELSE g

\* expects a negative "mana cost"
add_mana(g, side, mana) ==
    LET m == recip_as_u8(mana)
    IN  IF side = "Left"
        THEN [g EXCEPT !.left_wizard.mana = saturating_add(@, m)]
        ELSE IF side = "Right"
        THEN [g EXCEPT !.right_wizard.mana = saturating_add(@, m)]
        ELSE g

remove_mana(g, side, cost) ==
    IF side = "Left"
    THEN [g EXCEPT !.left_wizard.mana = saturating_sub(@, cost)]
    ELSE IF side = "Right"
    THEN [g EXCEPT !.right_wizard.mana = saturating_sub(@, cost)]
    ELSE g

\* game_completed without the first test for both wizards dead
game_completed_leftfirst(g) ==
    IF g.left_wizard.health = 0 THEN <<TRUE, "Right">>
    ELSE IF g.right_wizard.health = 0 THEN <<TRUE, "Left">>
    ELSE <<FALSE, "Neither">>

game_completed(g) ==
    IF g.left_wizard.health = 0 /\ g.right_wizard.health = 0 THEN <<TRUE, "Neither">>
    ELSE IF g.left_wizard.health = 0 THEN <<TRUE, "Right">>
    ELSE IF g.right_wizard.health = 0 THEN <<TRUE, "Left">>
    ELSE <<FALSE, "Neither">>

\* evaluate with the ManaShield test left out of the attack arms
evaluate_noshield(g, attacker_side, attacker, defender) ==
    LET defender_side == IF attacker_side = "Left" THEN "Right" ELSE "Left"
    IN  CASE attacker \in {"Strike", "Fireball", "LightningBolt"} ->
                IF defender = "Reflect"
                THEN damage_wizard(g, attacker_side, damage_amnt(attacker))
                ELSE damage_wizard(g, defender_side, damage_amnt(attacker))
          [] attacker = "Concentrate" -> add_mana(g, attacker_side, mana_cost(attacker))
          [] OTHER -> g

\* evaluate with Reflect sending the damage on to the defender
evaluate_noredirect(g, attacker_side, attacker, defender) ==
    LET defender_side == IF attacker_side = "Left" THEN "Right" ELSE "Left"
    IN  CASE attacker \in {"Strike", "Fireball", "LightningBolt"} ->
                IF defender = "ManaShield" THEN g
                ELSE damage_wizard(g, defender_side, damage_amnt(attacker))
          [] attacker = "Concentrate" -> add_mana(g, attacker_side, mana_cost(attacker))
          [] OTHER -> g

\* evaluate with a Reflect arm that deals the documented +1 by itself
evaluate_reflect_hits(g, attacker_side, attacker, defender) ==
    LET defender_side == IF attacker_side = "Left" THEN "Right" ELSE "Left"
    IN  CASE attacker \in {"Strike", "Fireball", "LightningBolt"} ->
                IF defender = "Reflect"
                THEN damage_wizard(g, attacker_side, damage_amnt(attacker))
                ELSE IF defender = "ManaShield" THEN g
                ELSE damage_wizard(g, defender_side, damage_amnt(attacker))
          [] attacker = "Reflect" -> damage_wizard(g, defender_side, 1)
          [] attacker = "Concentrate" -> add_mana(g, attacker_side, mana_cost(attacker))
          [] OTHER -> g

\* evaluate with a wizard already at 0 health dealing no damage
evaluate_alive(g, attacker_side, attacker, defender) ==
    LET defender_side == IF attacker_side = "Left" THEN "Right" ELSE "Left"
        own == IF attacker_side = "Left" THEN g.left_wizard ELSE g.right_wizard
    IN  CASE attacker \in {"Strike", "Fireball", "LightningBolt"} ->
                IF own.health = 0 THEN g
                ELSE IF defender = "Reflect"
                THEN damage_wizard(g, attacker_side, damage_amnt(attacker))
                ELSE IF defender = "ManaShield" THEN g
                ELSE damage_wizard(g, defender_side, damage_amnt(attacker))
          [] attacker = "Concentrate" -> add_mana(g, attacker_side, mana_cost(attacker))
          [] OTHER -> g

evaluate(g, attacker_side, attacker, defender) ==
    LET defender_side == IF attacker_side = "Left" THEN "Right" ELSE "Left"
    IN  CASE attacker = "Strike" ->
                IF defender = "Reflect"
                THEN damage_wizard(g, attacker_side, damage_amnt(attacker))
                ELSE IF defender = "ManaShield"
                THEN g
                ELSE damage_wizard(g, defender_side, damage_amnt(attacker))
          [] attacker = "Fireball" ->
                IF defender = "Reflect"
                THEN damage_wizard(g, attacker_side, damage_amnt(attacker))
                ELSE IF defender = "ManaShield"
                THEN g
                ELSE damage_wizard(g, defender_side, damage_amnt(attacker))
          [] attacker = "LightningBolt" ->
                IF defender = "Reflect"
                THEN damage_wizard(g, attacker_side, damage_amnt(attacker))
                ELSE IF defender = "ManaShield"
                THEN g
                ELSE damage_wizard(g, defender_side, damage_amnt(attacker))
          [] attacker = "Concentrate" -> add_mana(g, attacker_side, mana_cost(attacker))
          [] OTHER -> g

\* ------------------------------------------------------------------------
\* Game::tick
\* ------------------------------------------------------------------------
\* the three arms of evaluate that deal damage
Attack == {"Strike", "Fireball", "LightningBolt"}

\* the four arms of the two filters
Costly == {"Fireball", "LightningBolt", "ManaShield", "Reflect"}

\* first match of tick: left's mana is compared with the cost of rightaction
left_illegal(g, leftaction, rightaction) ==
    /\ leftaction \in Costly
    /\ g.left_wizard.mana < as_u8(mana_cost(rightaction))

\* second match of tick
right_illegal(g, leftaction, rightaction) ==
    /\ rightaction \in Costly
    /\ g.right_wizard.mana < as_u8(mana_cost(rightaction))

\* the two remove_mana calls
deduct(g, leftaction, rightaction) ==
    LET g1 == IF leftaction # "Concentrate"
              THEN remove_mana(g, "Left", as_u8(mana_cost(leftaction)))
              ELSE g
    IN  IF rightaction # "Concentrate"
        THEN remove_mana(g1, "Right", as_u8(mana_cost(rightaction)))
        ELSE g1

\* the two evaluate calls with the second skipped once the game is completed
evaluate_both_stop(g, leftaction, rightaction) ==
    LET g1 == evaluate(g, "Left", leftaction, rightaction)
    IN  IF game_completed(g1)[1] THEN g1
        ELSE evaluate(g1, "Right", rightaction, leftaction)

\* the two evaluate calls, left first
evaluate_both(g, leftaction, rightaction) ==
    evaluate(evaluate(g, "Left", leftaction, rightaction), "Right", rightaction, leftaction)

\* the two trailing add_mana calls
passive_gain(g) == add_mana(add_mana(g, "Left", -1), "Right", -1)

\* tick with left's cost already removed when right's move is filtered
tick_eager(g, leftaction, rightaction) ==
    IF left_illegal(g, leftaction, rightaction)
    THEN [result |-> "ErrLeft", game |-> g]
    ELSE IF right_illegal(g, leftaction, rightaction)
    THEN [result |-> "ErrRight",
          game |-> IF leftaction # "Concentrate"
                   THEN remove_mana(g, "Left", as_u8(mana_cost(leftaction)))
                   ELSE g]
    ELSE [result |-> "Ok",
          game |-> passive_gain(evaluate_both(deduct(g, leftaction, rightaction),
                                              leftaction, rightaction))]

tick(g, leftaction, rightaction) ==
    IF left_illegal(g, leftaction, rightaction)
    THEN [result |-> "ErrLeft", game |-> g]
    ELSE IF right_illegal(g, leftaction, rightaction)
    THEN [result |-> "ErrRight", game |-> g]
    ELSE [result |-> "Ok",
          game |-> passive_gain(evaluate_both(deduct(g, leftaction, rightaction),
                                              leftaction, rightaction))]

\* every Game that tick calls can produce from a new Game
RECURSIVE TickClosure(_)
TickClosure(S) ==
    LET T == S \cup {tick(g, a, b).game : g \in S, a \in Action, b \in Action}
    IN  IF T = S THEN S ELSE TickClosure(T)

ReachableGames == TickClosure({Game_new})

\* ------------------------------------------------------------------------
\* State
\* ------------------------------------------------------------------------
VARIABLES
    game,         \* the Game owned by main
    prev,         \* the Game as it was when tick was last called
    leftaction,   \* arguments of the last tick call ("None" before the first)
    rightaction,
    result,       \* what the last tick call returned: "Ok", "ErrLeft", "ErrRight"
    pc,           \* main: "loop" while in the while loop, "done" after it
    winner,       \* the side main prints, "Unset" until then
    attacked      \* history: some tick call so far was given an attack

vars == <<game, prev, leftaction, rightaction, result, pc, winner, attacked>>

Init ==
    /\ game = Game_new
    /\ prev = Game_new
    /\ leftaction = "None"
    /\ rightaction = "None"
    /\ result = "None"
    /\ pc = "loop"
    /\ winner = "Unset"
    /\ attacked = FALSE

\* one call game.tick(la, ra); main discards the Result
TickCall(la, ra) ==
    LET r == tick(game, la, ra)
    IN  /\ game' = r.game
        /\ prev' = game
        /\ leftaction' = la
        /\ rightaction' = ra
        /\ result' = r.result
        /\ attacked' = (attacked \/ la \in Attack \/ ra \in Attack)

\* the while condition of main with only left's health looked at
main_loop_cond_leftonly(g) == g.left_wizard.health # 0

\* the while condition of main
main_loop_cond(g) == ~game_completed(g)[1]

\* one iteration of the while loop: two random actions, one tick
MainIter(la, ra) ==
    /\ pc = "loop"
    /\ main_loop_cond(game)
    /\ TickCall(la, ra)
    /\ UNCHANGED <<pc, winner>>

\* loop exit and the final println
MainExit ==
    /\ pc = "loop"
    /\ ~main_loop_cond(game)
    /\ pc' = "done"
    /\ winner' = game_completed(game)[2]
    /\ UNCHANGED <<game, prev, leftaction, rightaction, result, attacked>>

Next ==
    \/ \E la \in Action, ra \in Action : MainIter(la, ra)
    \/ MainExit

\* the program: main
Spec == Init /\ [][Next]_vars

\* main under a fair selector: the loop keeps running, and every pair of
\* actions that can still change the state is chosen again
FairSpec ==
    /\ Init
    /\ [][Next]_vars
    /\ WF_vars(MainExit)
    /\ \A la \in Action, ra \in Action : WF_vars(MainIter(la, ra))

\* the engine alone: any sequence of tick calls on a new Game
EngineTick(la, ra) ==
    /\ TickCall(la, ra)
    /\ UNCHANGED <<pc, winner>>

EngineNext == \E la \in Action, ra \in Action : EngineTick(la, ra)

EngineSpec == Init /\ [][EngineNext]_vars

\* ------------------------------------------------------------------------
\* Properties
\* ------------------------------------------------------------------------
Rejected == result \in {"ErrLeft", "ErrRight"}

Resolved == result = "Ok"

Dead(w) == w.health = 0

\* C1: legality is side-local: tick rejects the turn if and only if some
\* side's own action costs more than that same side's own mana (so a side
\* with mana 0 choosing Fireball is always rejected).
C1_LegalitySideLocal ==
    result # "None" =>
        (Rejected <=> \/ mana_cost(leftaction) > prev.left_wizard.mana
                      \/ mana_cost(rightaction) > prev.right_wizard.mana)

\* C2: atomicity of rejection: when tick returns an error, health and mana
\* of both wizards and the turn count are what they were before the call.
C2_RejectionAtomic == Rejected => game = prev

\* C2 witness: right's move was filtered after left's costly move had passed
\* the filter with mana it would have paid.
C2_Witness ==
    /\ result = "ErrRight"
    /\ leftaction \in Costly
    /\ prev.left_wizard.mana > 0
    /\ game = prev

\* C3: the turn count goes up by exactly 1 on every resolved turn and stays
\* unchanged on every rejected turn.
C3_TurnCount ==
    /\ Resolved => game.turn_count = prev.turn_count + 1
    /\ Rejected => game.turn_count = prev.turn_count

\* C4: passive gain: a resolved turn raises mana by 1 after cost deduction
\* and both evaluations; a side that plays Strike ends the turn with its
\* pre-turn mana plus 1.
C4_PassiveGain ==
    Resolved =>
        /\ game.left_wizard.mana =
              evaluate_both(deduct(prev, leftaction, rightaction),
                            leftaction, rightaction).left_wizard.mana + 1
        /\ game.right_wizard.mana =
              evaluate_both(deduct(prev, leftaction, rightaction),
                            leftaction, rightaction).right_wizard.mana + 1
        /\ leftaction = "Strike" => game.left_wizard.mana = prev.left_wizard.mana + 1
        /\ rightaction = "Strike" => game.right_wizard.mana = prev.right_wizard.mana + 1

\* C5: Concentrate: in a resolved turn the side that chose Concentrate has
\* its own mana raised by exactly 4 by the evaluations (the passive gain not
\* counted), whatever the opponent chose.
C5_Concentrate ==
    Resolved =>
        /\ leftaction = "Concentrate" =>
              evaluate_both(deduct(prev, leftaction, rightaction),
                            leftaction, rightaction).left_wizard.mana
                  = prev.left_wizard.mana + 4
        /\ rightaction = "Concentrate" =>
              evaluate_both(deduct(prev, leftaction, rightaction),
                            leftaction, rightaction).right_wizard.mana
                  = prev.right_wizard.mana + 4

\* max(0, h - d), written without the model's own subtraction operator
FloorSub(h, d) == IF d >= h THEN 0 ELSE h - d

\* C6: Reflect redirection: in a resolved turn where one side attacks with
\* damage d and the other plays Reflect, the attacker ends with
\* max(0, ha - d) health and the defender's health is unchanged.
C6_ReflectRedirects ==
    /\ Resolved =>
        /\ (leftaction \in Attack /\ rightaction = "Reflect") =>
              /\ game.left_wizard.health =
                    FloorSub(prev.left_wizard.health, damage_amnt(leftaction))
              /\ game.right_wizard.health = prev.right_wizard.health
        /\ (rightaction \in Attack /\ leftaction = "Reflect") =>
              /\ game.right_wizard.health =
                    FloorSub(prev.right_wizard.health, damage_amnt(rightaction))
              /\ game.left_wizard.health = prev.left_wizard.health
    \* the two evaluations on the current game, for the pairs the filter of
    \* tick never lets through as well (LightningBolt against Reflect)
    /\ \A a \in Attack :
        /\ evaluate_both(game, a, "Reflect").left_wizard.health =
              FloorSub(game.left_wizard.health, damage_amnt(a))
        /\ evaluate_both(game, a, "Reflect").right_wizard.health = game.right_wizard.health
        /\ evaluate_both(game, "Reflect", a).right_wizard.health =
              FloorSub(game.right_wizard.health, damage_amnt(a))
        /\ evaluate_both(game, "Reflect", a).left_wizard.health = game.left_wizard.health

\* C6 witness: an attack was reflected and the attacker lost health.
C6_Witness ==
    /\ Resolved
    /\ leftaction = "Reflect"
    /\ rightaction \in Attack
    /\ game.right_wizard.health < prev.right_wizard.health
    /\ game.left_wizard.health = prev.left_wizard.health

\* C7: ManaShield full block: in a resolved turn where one side attacks and
\* the other plays ManaShield, neither health changes, also when the damage
\* would have brought the defender to 0.
C7_ManaShieldBlocks ==
    /\ (/\ Resolved
        /\ \/ (leftaction \in Attack /\ rightaction = "ManaShield")
           \/ (rightaction \in Attack /\ leftaction = "ManaShield"))
       => /\ game.left_wizard.health = prev.left_wizard.health
          /\ game.right_wizard.health = prev.right_wizard.health
    \* the two evaluations on the current game, for the pairs the filter of
    \* tick never lets through as well
    /\ \A a \in Attack :
        /\ evaluate_both(game, a, "ManaShield").left_wizard.health = game.left_wizard.health
        /\ evaluate_both(game, a, "ManaShield").right_wizard.health = game.right_wizard.health
        /\ evaluate_both(game, "ManaShield", a).left_wizard.health = game.left_wizard.health
        /\ evaluate_both(game, "ManaShield", a).right_wizard.health = game.right_wizard.health

\* C7 witness: a blocked attack that would have killed the defender.
C7_Witness ==
    /\ Resolved
    /\ leftaction \in Attack
    /\ rightaction = "ManaShield"
    /\ prev.right_wizard.health > 0
    /\ damage_amnt(leftaction) >= prev.right_wizard.health
    /\ game.right_wizard.health = prev.right_wizard.health
    /\ ~game_completed(game)[1]

\* C8: termination classification: game_completed is terminal iff some
\* health is 0; both 0 gives (true, Neither), only left 0 gives Right, only
\* right 0 gives Left, otherwise (false, Neither).
C8_Classification ==
    LET l == Dead(game.left_wizard)
        r == Dead(game.right_wizard)
        c == game_completed(game)
    IN  /\ c[1] <=> (l \/ r)
        /\ (l /\ r) => c = <<TRUE, "Neither">>
        /\ (l /\ ~r) => c = <<TRUE, "Right">>
        /\ (~l /\ r) => c = <<TRUE, "Left">>
        /\ (~l /\ ~r) => c = <<FALSE, "Neither">>

\* C8 witness: both wizards died and main reported Neither.
C8_Witness ==
    /\ pc = "done"
    /\ Dead(game.left_wizard)
    /\ Dead(game.right_wizard)
    /\ winner = "Neither"

\* C9: in every state reached by tick calls from a new Game, health and
\* mana of both wizards are non-negative: subtraction saturates at 0.
C9_NonNegative ==
    /\ game.left_wizard.health >= 0
    /\ game.right_wizard.health >= 0
    /\ game.left_wizard.mana >= 0
    /\ game.right_wizard.mana >= 0

\* C9 witness: a damage larger than the health left and a cost larger than
\* the mana left were both subtracted in one resolved turn.
C9_Witness ==
    /\ Resolved
    /\ leftaction = "LightningBolt"
    /\ prev.left_wizard.mana < mana_cost(leftaction)
    /\ game.left_wizard.mana = 0
    /\ prev.right_wizard.health < damage_amnt(leftaction)
    /\ prev.right_wizard.health > 0
    /\ game.right_wizard.health = 0

\* C10: the trial loop exits exactly when the state is terminal: a rejected
\* turn never ends the trial nor yields a winner, no tick is made on a
\* terminal state, and the winner printed classifies the final state.
C10_LoopExit ==
    LET terminal(g) == Dead(g.left_wizard) \/ Dead(g.right_wizard)
        class(g) == IF Dead(g.left_wizard) /\ Dead(g.right_wizard) THEN "Neither"
                    ELSE IF Dead(g.left_wizard) THEN "Right"
                    ELSE "Left"
    IN  /\ pc = "done" => (terminal(game) /\ winner = class(game))
        /\ pc = "loop" => winner = "Unset"
        /\ Rejected => (pc = "loop" /\ ~terminal(game))
        /\ result # "None" => ~terminal(prev)
        /\ (pc = "loop" /\ ~terminal(game)) =>
              ENABLED (\E la \in Action, ra \in Action : MainIter(la, ra))
        /\ (pc = "loop" /\ terminal(game)) => ENABLED MainExit

\* C10 witness: the loop was left after a resolved turn killed right only,
\* and main printed Left.
C10_Witness ==
    /\ pc = "done"
    /\ Resolved
    /\ winner = "Left"
    /\ Dead(game.right_wizard)
    /\ ~Dead(game.left_wizard)

\* C11: under a fair action selector every trial eventually reaches a
\* terminal state and main leaves its loop.
C11_FairTermination ==
    <>(pc = "done" /\ (Dead(game.left_wizard) \/ Dead(game.right_wizard)))

\* C11 witness: a trial that ended, after turns that were rejected or dealt
\* no damage could have gone on: the last turn was a resolved attack.
C11_Witness ==
    /\ pc = "done"
    /\ attacked
    /\ Resolved
    /\ Dead(game.left_wizard) \/ Dead(game.right_wizard)

\* C12: end-to-end first turn: a new duel has health 25/25 and mana 1/1,
\* and (Strike, Strike) as its first turn is resolved and gives health
\* 23/23, mana 2/2, turn count 1 and a non-terminal state.
C12_FirstTurn ==
    /\ result = "None" =>
          game = [left_wizard |-> [health |-> 25, mana |-> 1],
                  right_wizard |-> [health |-> 25, mana |-> 1],
                  turn_count |-> 0]
    /\ (result # "None" /\ prev = Game_new
           /\ leftaction = "Strike" /\ rightaction = "Strike") =>
          /\ Resolved
          /\ game = [left_wizard |-> [health |-> 23, mana |-> 2],
                     right_wizard |-> [health |-> 23, mana |-> 2],
                     turn_count |-> 1]
          /\ ~game_completed(game)[1]

\* C13: Reflect as the source documents it: an attack met by Reflect is
\* sent back to the attacker and deals the attack's damage plus 1.
C13_ReflectPlusOne ==
    Resolved =>
        /\ (leftaction \in Attack /\ rightaction = "Reflect") =>
              game.left_wizard.health =
                  FloorSub(prev.left_wizard.health, damage_amnt(leftaction) + 1)
        /\ (rightaction \in Attack /\ leftaction = "Reflect") =>
              game.right_wizard.health =
                  FloorSub(prev.right_wizard.health, damage_amnt(rightaction) + 1)

\* the two evaluate calls in the other order, right first
evaluate_right_first(g, la, ra) ==
    evaluate(evaluate(g, "Right", ra, la), "Left", la, ra)

\* C14: the order of the two evaluations does not matter: for every state
\* and accepted action pair, left-then-right and right-then-left give the
\* same health and mana on both sides.
C14_OrderIrrelevant ==
    /\ Resolved =>
          game = passive_gain(evaluate_right_first(
                      deduct(prev, leftaction, rightaction), leftaction, rightaction))
    /\ \A a \in Action, b \in Action :
          tick(game, a, b).result = "Ok" =>
              evaluate_both(deduct(game, a, b), a, b)
                  = evaluate_right_first(deduct(game, a, b), a, b)

\* C14 witness: left's attack, evaluated first, killed right, and right's
\* attack of the same turn still lowered left's health.
C14_Witness ==
    /\ Resolved
    /\ leftaction \in Attack
    /\ rightaction \in Attack
    /\ prev.right_wizard.health > 0
    /\ game.right_wizard.health = 0
    /\ game.left_wizard.health > 0
    /\ game.left_wizard.health < prev.left_wizard.health

\* C15: simultaneous death: when in one resolved turn both sides attack
\* (so nothing is blocked or reflected) with damage at least the
\* opponent's health, both end at 0 and the result is both-dead.
C15_SimultaneousDeath ==
    (/\ Resolved
     /\ leftaction \in Attack
     /\ rightaction \in Attack
     /\ damage_amnt(leftaction) >= prev.right_wizard.health
     /\ damage_amnt(rightaction) >= prev.left_wizard.health)
    => /\ game.left_wizard.health = 0
       /\ game.right_wizard.health = 0
       /\ game_completed(game) = <<TRUE, "Neither">>
       /\ pc = "done" => winner = "Neither"

\* C15 witness: two living wizards killed each other in one turn and main
\* printed Neither.
C15_Witness ==
    /\ pc = "done"
    /\ Resolved
    /\ leftaction \in Attack
    /\ rightaction \in Attack
    /\ prev.left_wizard.health > 0
    /\ prev.right_wizard.health > 0
    /\ game.left_wizard.health = 0
    /\ game.right_wizard.health = 0
    /\ winner = "Neither"

\* C16: health never goes up: after every tick call, accepted or rejected,
\* each side's health is at most what it was before the call, and at most
\* the initial health.
C16_HealthMonotone ==
    /\ result # "None" =>
          /\ game.left_wizard.health <= prev.left_wizard.health
          /\ game.right_wizard.health <= prev.right_wizard.health
    /\ game.left_wizard.health <= InitHealth
    /\ game.right_wizard.health <= InitHealth

\* C16 witness: a damage larger than the health left was applied.
C16_Witness ==
    /\ Resolved
    /\ rightaction \in Attack
    /\ leftaction \notin {"ManaShield", "Reflect"}
    /\ prev.left_wizard.health > 0
    /\ prev.left_wizard.health < damage_amnt(rightaction)
    /\ game.left_wizard.health = 0

\* C17: a turn in which neither side chooses Strike, Fireball or
\* LightningBolt leaves both healths unchanged (ManaShield and Reflect not
\* facing an attack only cost their caster mana), so a trial whose selector
\* has only returned ManaShield, Reflect and Concentrate is not terminal.
C17_NoAttackNoDamage ==
    /\ (result # "None" /\ leftaction \notin Attack /\ rightaction \notin Attack) =>
          /\ game.left_wizard.health = prev.left_wizard.health
          /\ game.right_wizard.health = prev.right_wizard.health
    /\ (Resolved /\ leftaction \in {"ManaShield", "Reflect"}
                 /\ rightaction \in {"ManaShield", "Reflect"}) =>
          game = passive_gain(deduct(prev, leftaction, rightaction))
    /\ ~attacked =>
          /\ game.left_wizard.health = InitHealth
          /\ game.right_wizard.health = InitHealth
          /\ ~game_completed(game)[1]
          /\ pc = "loop"

\* C17 witness: a resolved turn of Reflect against ManaShield in a trial
\* without any attack so far: both casters paid mana, nobody lost health.
C17_Witness ==
    /\ ~attacked
    /\ Resolved
    /\ leftaction = "Reflect"
    /\ rightaction = "ManaShield"
    /\ game.left_wizard.mana < prev.left_wizard.mana
    /\ game.right_wizard.mana < prev.right_wizard.mana
    /\ game.left_wizard.health = InitHealth
    /\ game.right_wizard.health = InitHealth

\* the Game with the left and the right wizard exchanged
Mirror(g) ==
    [left_wizard |-> g.right_wizard, right_wizard |-> g.left_wizard,
     turn_count |-> g.turn_count]

\* C18: left/right symmetry: tick(a, b) on a state is accepted iff
\* tick(b, a) is accepted on the mirrored state, and when accepted the two
\* results are mirrors of each other.
C18_Symmetry ==
    \A a \in Action, b \in Action :
        LET r == tick(game, a, b)
            m == tick(Mirror(game), b, a)
        IN  /\ (r.result = "Ok") <=> (m.result = "Ok")
            /\ (r.result = "Ok") => m.game = Mirror(r.game)

\* C19: no dead end: in every reachable state (Strike, Strike) is accepted
\* and lowers both healths by 2, saturating at 0; so every non-terminal
\* state has an accepted turn that strictly lowers health.
C19_StrikeAlwaysPlayable ==
    LET r == tick(game, "Strike", "Strike")
    IN  /\ r.result = "Ok"
        /\ r.game.left_wizard.health = FloorSub(game.left_wizard.health, 2)
        /\ r.game.right_wizard.health = FloorSub(game.right_wizard.health, 2)
        /\ ~(Dead(game.left_wizard) \/ Dead(game.right_wizard)) =>
              /\ r.game.left_wizard.health < game.left_wizard.health
              /\ r.game.right_wizard.health < game.right_wizard.health
        /\ (result # "None" /\ leftaction = "Strike" /\ rightaction = "Strike") =>
              /\ Resolved
              /\ game.left_wizard.health = FloorSub(prev.left_wizard.health, 2)
              /\ game.right_wizard.health = FloorSub(prev.right_wizard.health, 2)

\* C19 witness: (Strike, Strike) was resolved with both wizards out of
\* mana, one losing 2 health and the other saturating at 0.
C19_Witness ==
    /\ Resolved
    /\ leftaction = "Strike"
    /\ rightaction = "Strike"
    /\ prev.left_wizard.mana = 0
    /\ prev.right_wizard.mana = 0
    /\ prev.left_wizard.health = 1
    /\ game.left_wizard.health = 0
    /\ game.right_wizard.health = prev.right_wizard.health - 2

\* C20: every catalog action is playable by each side: for each side and
\* each action some Game reachable by tick calls has that side holding at
\* least the action's cost and accepts a turn in which the side chooses it.
C20_AllPlayable ==
    /\ game \in ReachableGames
    /\ \A a \in Action :
        /\ \E g \in ReachableGames, b \in Action :
              /\ g.left_wizard.mana >= mana_cost(a)
              /\ tick(g, a, b).result = "Ok"
        /\ \E g \in ReachableGames, b \in Action :
              /\ g.right_wizard.mana >= mana_cost(a)
              /\ tick(g, b, a).result = "Ok"

====
